---- MODULE Spec2Model ----
(***************************************************************************)
(* Model of src/app.py: the Streamlit dashboard of the bank-marketing       *)
(* repository.  One script run of main() is a sequence of steps (pc); the   *)
(* session is a sequence of script runs, each started by an upload, the     *)
(* removal of the upload, or a widget change.                               *)
(*                                                                          *)
(* Numbers.  A numeric cell is held in tenths (25 is 250, 60.5 is 605), so  *)
(* that int(), the comparisons with the slider's integers and the number    *)
(* formats of to_csv and of the metric are computed, not assumed.  The     *)
(* missing value of a numeric column (numpy.nan) is NaN, a number no cell   *)
(* of an uploaded file stands for; every comparison with it is false.       *)
(***************************************************************************)
EXTENDS Integers, Sequences, FiniteSets, TLC

\* Bounds of the model.
MaxRows == 3
MaxParses == 2

\* Python's None, where a name is expected (a file, a column, an exception) and
\* where an object is (a DataFrame, the metrics, the CSV data).
NoFile == "None"
NoName == "None"
None == [none |-> TRUE]
NaN == -1

\* The cell texts the uploaded CSV files are built from.
AgeTexts == {"25", "40", "60", "60.5", ""}
JobTexts == {"admin", "blue-collar"}
Headers == {<<"age", "job">>, <<"age">>, <<"job">>}
\* The integer positions the user drags the slider's handles to (besides its ends).
SliderStops == {30}

Range(s) == {s[i] : i \in 1..Len(s)}

CellTexts(col) == IF col = "age" THEN AgeTexts ELSE JobTexts

LinesOf(hdr) == {l \in [1..Len(hdr) -> AgeTexts \cup JobTexts] :
                    \A i \in 1..Len(hdr) : l[i] \in CellTexts(hdr[i])}

\* An uploaded file: its lines, each a sequence of field texts; the first is the header.
TableFiles == UNION {{<<hdr>> \o body : body \in [1..n -> LinesOf(hdr)]} :
                        hdr \in Headers, n \in 0..MaxRows}

\* A file of no bytes, and a file whose data line has more fields than its header.
BadFiles == {<< >>, <<<<"age", "job">>, <<"25", "admin", "60">>>>}

(***************************************************************************)
(* pandas.read_csv, as load_data calls it.                                  *)
(***************************************************************************)

\* The number a field text of a numeric column stands for, in tenths.
ParseNumber(s) ==
    CASE s = "" -> NaN
      [] s = "25" -> 250
      [] s = "25.0" -> 250
      [] s = "40" -> 400
      [] s = "40.0" -> 400
      [] s = "60" -> 600
      [] s = "60.0" -> 600
      [] s = "60.5" -> 605

IsIntegerText(s) == s \in {"25", "40", "60"}
IsNumberText(s) == s \in {"", "25", "25.0", "40", "40.0", "60", "60.0", "60.5"}

\* A line of one empty field is a blank line, which read_csv skips.
IsBlankLine(l) == Len(l) = 1 /\ l[1] = ""

\* read_csv raises EmptyDataError on a file with no header and ParserError on a
\* line with more fields than the header.
ReadCsvRaises(raw) ==
    \/ Len(raw) = 0
    \/ \E i \in 2..Len(raw) : Len(raw[i]) > Len(raw[1])

\* The dtype read_csv infers for a column from its field texts.
InferDtype(texts) ==
    IF texts = << >> THEN "object"
    ELSE IF \A i \in 1..Len(texts) : IsIntegerText(texts[i]) THEN "int64"
    ELSE IF \A i \in 1..Len(texts) : IsNumberText(texts[i]) THEN "float64"
    ELSE "object"

\* A cell's value: a number for a numeric column, the text itself for an object
\* column (no object column of the files drawn has an empty field).
ParseCell(dtype, s) ==
    IF dtype \in {"int64", "float64"} THEN ParseNumber(s) ELSE s

\* The DataFrame read_csv returns: the header's columns, a dtype per column, and
\* the data lines as rows labelled 0, 1, 2, ... (the RangeIndex).
ReadCsv(raw) ==
    LET hdr == raw[1]
        body == SelectSeq(SubSeq(raw, 2, Len(raw)), LAMBDA l : ~IsBlankLine(l))
        colOf(c) == CHOOSE j \in 1..Len(hdr) : hdr[j] = c
        dt == [c \in Range(hdr) |->
                 InferDtype([i \in 1..Len(body) |-> body[i][colOf(c)]])]
    IN [columns |-> hdr,
        dtypes  |-> dt,
        rows    |-> [i \in 1..Len(body) |->
                       [idx |-> i - 1,
                        cells |-> [c \in Range(hdr) |->
                                     ParseCell(dt[c], body[i][colOf(c)])]]]]

(***************************************************************************)
(* The pandas operations main() applies to the DataFrame.                   *)
(***************************************************************************)

IsNumeric(dtype) == dtype \in {"int64", "float64"}

\* df.select_dtypes(include=['object', 'category']).columns.tolist()
CategoricalCols(t) == SelectSeq(t.columns, LAMBDA c : t.dtypes[c] \in {"object", "category"})

\* df.select_dtypes(include=['number']).columns.tolist()
NumericalCols(t) == SelectSeq(t.columns, LAMBDA c : IsNumeric(t.dtypes[c]))

\* df[col].unique(): the distinct values of the column.
Unique(t, col) == {t.rows[i].cells[col] : i \in 1..Len(t.rows)}

\* df[col].isin(vals): one boolean per row.
Isin(t, col, vals) == [i \in 1..Len(t.rows) |-> t.rows[i].cells[col] \in vals]

\* Between with the upper end excluded.
BetweenExclusive(t, col, lo, hi) ==
    [i \in 1..Len(t.rows) |->
        LET v == t.rows[i].cells[col]
        IN  v # NaN /\ v >= lo * 10 /\ v < hi * 10]

\* (df[col] >= lo) & (df[col] <= hi), lo and hi the slider's integers: one boolean
\* per row, False where the value is missing.
Between(t, col, lo, hi) ==
    [i \in 1..Len(t.rows) |->
        LET v == t.rows[i].cells[col]
        IN  v # NaN /\ v >= lo * 10 /\ v <= hi * 10]

\* df[mask]: a new DataFrame of the rows whose boolean is True, in their order,
\* with their index labels, columns and dtypes.
BoolIndex(t, mask) ==
    LET keep == {i \in 1..Len(t.rows) : mask[i]}
        at(k) == CHOOSE i \in keep : Cardinality({j \in keep : j < i}) = k - 1
    IN  [t EXCEPT !.rows = [k \in 1..Cardinality(keep) |-> t.rows[at(k)]]]

\* The values of a numeric column that are not missing (min, max and mean skip NaN).
Present(t, col) == {i \in 1..Len(t.rows) : t.rows[i].cells[col] # NaN}

\* df[col].min() and df[col].max(): NaN when no value is present.
ColMin(t, col) ==
    IF Present(t, col) = {} THEN NaN
    ELSE LET i == CHOOSE i \in Present(t, col) :
                    \A j \in Present(t, col) : t.rows[i].cells[col] <= t.rows[j].cells[col]
         IN  t.rows[i].cells[col]

ColMax(t, col) ==
    IF Present(t, col) = {} THEN NaN
    ELSE LET i == CHOOSE i \in Present(t, col) :
                    \A j \in Present(t, col) : t.rows[i].cells[col] >= t.rows[j].cells[col]
         IN  t.rows[i].cells[col]

\* int(v) of a number: truncation toward zero.  int(nan) raises ValueError.
IntOf(v) == IF v >= 0 THEN v \div 10 ELSE -((-v) \div 10)

RECURSIVE SumCells(_, _, _)
SumCells(t, col, is) ==
    IF is = {} THEN 0
    ELSE LET i == CHOOSE i \in is : TRUE
         IN  t.rows[i].cells[col] + SumCells(t, col, is \ {i})

\* sum / n in tenths, rounded to the nearest tenth, a tie to the even one: the
\* digits f"{x:.1f}" prints (the means of the files drawn are exact floats).
RoundedMean(sum, n) ==
    LET q == sum \div n
        r == sum % n
    IN  IF 2 * r < n THEN q
        ELSE IF 2 * r > n THEN q + 1
        ELSE IF q % 2 = 0 THEN q ELSE q + 1

FormatFloat(v) == IF v = NaN THEN "nan" ELSE ToString(v \div 10) \o "." \o ToString(v % 10)

\* df['age'].mean(): NaN when no value is present.
ColMean(t, col) ==
    IF Present(t, col) = {} THEN NaN
    ELSE RoundedMean(SumCells(t, col, Present(t, col)), Cardinality(Present(t, col)))

\* The "Average Age" metric: the mean to one decimal when 'age' is a column (a
\* numpy float, NaN included, is a float), 'N/A' otherwise.
AverageAge(t) ==
    IF "age" \in Range(t.columns) THEN FormatFloat(ColMean(t, "age")) ELSE "N/A"

\* The three metrics of lines 129-144.
MetricsOf(t) ==
    [records    |-> ToString(Len(t.rows)),
     attributes |-> Len(t.columns),
     average    |-> AverageAge(t)]

\* The count row of df.describe(include='all'): per column, the values present.
Describe(t) ==
    [c \in Range(t.columns) |->
        Cardinality({i \in 1..Len(t.rows) :
                        ~(IsNumeric(t.dtypes[c]) /\ t.rows[i].cells[c] = NaN)})]

\* A cell as to_csv writes it.
FormatCell(dtype, v) ==
    IF dtype = "int64" THEN ToString(v \div 10)
    ELSE IF dtype = "float64" THEN (IF v = NaN THEN "" ELSE FormatFloat(v))
    ELSE v

\* df.to_csv(): the index labels written as a first column.
ToCsvIndexed(t) ==
    <<(<<"">> \o t.columns)>> \o
    [i \in 1..Len(t.rows) |->
        <<ToString(t.rows[i].idx)>> \o
        [j \in 1..Len(t.columns) |->
            FormatCell(t.dtypes[t.columns[j]], t.rows[i].cells[t.columns[j]])]]

\* df.to_csv(index=False): the header line, then one line per row in the
\* DataFrame's order.
ToCsv(t) ==
    <<t.columns>> \o
    [i \in 1..Len(t.rows) |->
        [j \in 1..Len(t.columns) |->
            FormatCell(t.dtypes[t.columns[j]], t.rows[i].cells[t.columns[j]])]]

(***************************************************************************)
(* The session.                                                             *)
(***************************************************************************)

VARIABLES
    files,             \* the files the user can upload: name -> lines
    uploaded,          \* uploaded_file: the name of the uploaded file, or NoFile
    cache,             \* st.cache_data's entries of load_data: key -> result
    parses,            \* how often read_csv ran on each file
    served,            \* whether the last load_data call ran its body or was memoized
    pc,                \* where the script run stands
    df,                \* the DataFrame main() holds
    selected_cat_col,  \* the selectbox of line 110
    selected_val,      \* the multiselect of line 112
    age_range,         \* the slider of line 118
    metrics,           \* the metric cards
    overview,          \* tab 1: the preview's length and the describe counts
    charts,            \* tab 2: what became of each chart
    y_axis,            \* the selectbox of line 165
    csv,               \* tab 3: the download button's data
    out,               \* the messages shown (st.info, st.warning, st.error)
    exc                \* the exception that ended the run, if one did

vars == <<files, uploaded, cache, parses, served, pc, df, selected_cat_col, selected_val,
          age_range, metrics, overview, charts, y_axis, csv, out, exc>>

session == <<files, uploaded, cache, parses, served>>
widgets == <<selected_cat_col, selected_val, age_range>>
page == <<metrics, overview, charts, y_axis, csv>>

NoRange == << >>
\* No download data yet (the data of an export has its header line at least).
NoCsv == << >>
NoCharts == [hist |-> "none", scatter |-> "none"]

\* A script run starts on an empty page; df is rebound at line 96.
FreshPage ==
    /\ selected_cat_col' = NoName
    /\ selected_val' = {}
    /\ age_range' = NoRange
    /\ metrics' = None
    /\ overview' = None
    /\ charts' = NoCharts
    /\ y_axis' = NoName
    /\ csv' = NoCsv
    /\ out' = << >>
    /\ exc' = NoName

InitPage ==
    /\ uploaded = NoFile
    /\ cache = << >>
    /\ parses = [f \in DOMAIN files |-> 0]
    /\ served = "none"
    /\ pc = "start"
    /\ df = None
    /\ selected_cat_col = NoName
    /\ selected_val = {}
    /\ age_range = NoRange
    /\ metrics = None
    /\ overview = None
    /\ charts = NoCharts
    /\ y_axis = NoName
    /\ csv = NoCsv
    /\ out = << >>
    /\ exc = NoName

\* One file, of any content within the bounds.
Init ==
    /\ files \in [{"f1"} -> TableFiles \cup BadFiles]
    /\ InitPage

\* The files of a session with two uploads: the bad files, a header alone, and
\* tables with and without an age column, with and without a missing age.
SessionFiles ==
    BadFiles \cup
    {<<<<"age", "job">>>>,
     <<<<"age", "job">>, <<"25", "admin">>, <<"40", "admin">>, <<"60", "blue-collar">>>>,
     <<<<"age", "job">>, <<"25", "admin">>, <<"", "blue-collar">>>>,
     <<<<"job">>, <<"admin">>, <<"blue-collar">>>>}

InitSession ==
    /\ files \in [{"f1", "f2"} -> SessionFiles]
    /\ InitPage

Ended == pc \in {"waiting", "halted", "done", "crashed"}

\* The user uploads the first file of the session: the script reruns.
FirstUpload ==
    /\ pc = "waiting"
    /\ uploaded = NoFile
    /\ \E f \in DOMAIN files : uploaded' = f
    /\ pc' = "start"
    /\ FreshPage
    /\ UNCHANGED <<files, cache, parses, served, df>>

\* The user uploads a file (again, or another one): the script reruns.
Upload ==
    /\ Ended
    /\ \E f \in DOMAIN files : uploaded' = f
    /\ pc' = "start"
    /\ FreshPage
    /\ UNCHANGED <<files, cache, parses, served, df>>

\* The user removes the uploaded file: the script reruns.
RemoveUpload ==
    /\ Ended
    /\ uploaded # NoFile
    /\ uploaded' = NoFile
    /\ pc' = "start"
    /\ FreshPage
    /\ UNCHANGED <<files, cache, parses, served, df>>

\* The user changes a filter or an axis: the script reruns (the values of the
\* widgets are drawn where the run reads them).
Interact ==
    /\ pc \in {"done", "crashed"}
    /\ pc' = "start"
    /\ FreshPage
    /\ UNCHANGED <<session, df>>

\* Lines 92-94.
NoUpload ==
    /\ pc = "start"
    /\ uploaded = NoFile
    /\ out' = Append(out, "info: please upload")
    /\ pc' = "waiting"
    /\ UNCHANGED <<session, df, widgets, page, exc>>

(***************************************************************************)
(* load_data, under @st.cache_data.                                         *)
(***************************************************************************)

\* The key st.cache_data files a call of load_data under: the identity of the
\* uploaded file it was called with.
CacheKey(f) == f

\* load_data without the decorator.
MemoizedNever(c, key) == FALSE

\* Whether st.cache_data holds an entry for the key, and so returns it without
\* running load_data's body.
Memoized(c, key) == key \in DOMAIN c

\* load_data without its st.error.
LoadDataSilent(raw) ==
    IF ReadCsvRaises(raw)
    THEN [result |-> None, shown |-> << >>]
    ELSE [result |-> ReadCsv(raw), shown |-> << >>]

\* The body of load_data on an uploaded file: what it returns, and the messages
\* it shows (cached with the result, and shown again whenever the entry is served).
LoadDataBody(raw) ==
    IF ReadCsvRaises(raw)
    THEN [result |-> None, shown |-> <<"error: reading the file">>]
    ELSE [result |-> ReadCsv(raw), shown |-> << >>]

\* The DataFrame of the previous run kept (as in st.session_state) and filtered on.
BindDfKept(loaded, previous) == IF previous = None THEN loaded ELSE previous

\* df = load_data(uploaded_file): every run binds df to the loader's result; the
\* DataFrame the previous run derived is dropped.
BindDf(loaded, previous) == loaded

\* df is None or df.empty
NoneOrEmpty(t) == t = None \/ Len(t.rows) = 0 \/ Len(t.columns) = 0

\* Lines 96-100.
LoadData ==
    /\ pc = "start"
    /\ uploaded # NoFile
    /\ LET key == CacheKey(uploaded)
           hit == Memoized(cache, key)
           entry == IF hit THEN cache[key] ELSE LoadDataBody(files[uploaded])
           loaded == BindDf(entry.result, df)
       IN  /\ hit \/ parses[uploaded] < MaxParses
           /\ cache' = IF hit THEN cache
                       ELSE [k \in DOMAIN cache \cup {key} |->
                                IF k = key THEN entry ELSE cache[k]]
           /\ parses' = IF hit THEN parses ELSE [parses EXCEPT ![uploaded] = @ + 1]
           /\ served' = IF hit THEN "memoized" ELSE "parsed"
           /\ df' = loaded
           /\ IF NoneOrEmpty(loaded)
              THEN /\ out' = (out \o entry.shown) \o <<"warning: empty or could not be read">>
                   /\ pc' = "halted"
              ELSE /\ out' = out \o entry.shown
                   /\ pc' = "filters"
    /\ UNCHANGED <<files, uploaded, widgets, page, exc>>

(***************************************************************************)
(* The sidebar filters.                                                     *)
(***************************************************************************)

\* Lines 108-113: the categorical filter, when the DataFrame has a categorical
\* column.  The multiselect offers the column's distinct values.
CatFilter ==
    /\ pc = "filters"
    /\ IF CategoricalCols(df) # << >>
       THEN \E col \in Range(CategoricalCols(df)) :
            \E vals \in SUBSET Unique(df, col) :
                /\ selected_cat_col' = col
                /\ selected_val' = vals
                /\ df' = BoolIndex(df, Isin(df, col, vals))
       ELSE UNCHANGED <<selected_cat_col, selected_val, df>>
    /\ pc' = "age"
    /\ UNCHANGED <<session, age_range, page, out, exc>>

\* The positions of a handle of the slider between its ends.
SliderChoices(mn, mx) == {k \in mn..mx : k \in {mn, mx} \cup SliderStops}

\* Lines 116-122: the age filter, when 'age' is a numeric column.  The slider's
\* ends are int(min) and int(max) of the DataFrame as filtered so far; int()
\* raises ValueError when that is NaN, and nothing catches it.
AgeFilter ==
    /\ pc = "age"
    /\ IF "age" \in Range(NumericalCols(df))
       THEN IF ColMin(df, "age") = NaN
            THEN /\ exc' = "ValueError"
                 /\ pc' = "crashed"
                 /\ UNCHANGED <<df, age_range>>
            ELSE \E lo, hi \in SliderChoices(IntOf(ColMin(df, "age")),
                                             IntOf(ColMax(df, "age"))) :
                    /\ lo <= hi
                    /\ age_range' = <<lo, hi>>
                    /\ df' = BoolIndex(df, Between(df, "age", lo, hi))
                    /\ pc' = "metrics"
                    /\ UNCHANGED exc
       ELSE /\ pc' = "metrics"
            /\ UNCHANGED <<df, age_range, exc>>
    /\ UNCHANGED <<session, selected_cat_col, selected_val, page, out>>

(***************************************************************************)
(* The main panel.                                                          *)
(***************************************************************************)

\* Lines 125-144.
Metrics ==
    /\ pc = "metrics"
    /\ metrics' = MetricsOf(df)
    /\ pc' = "overview"
    /\ UNCHANGED <<session, df, widgets, overview, charts, y_axis, csv, out, exc>>

\* Lines 149-154: df.head(10) and df.describe(include='all').
Overview ==
    /\ pc = "overview"
    /\ overview' = [head  |-> IF Len(df.rows) < 10 THEN Len(df.rows) ELSE 10,
                    count |-> Describe(df)]
    /\ pc' = "hist"
    /\ UNCHANGED <<session, df, widgets, metrics, charts, y_axis, csv, out, exc>>

\* The error of a chart left uncaught.
OnChartErrorRaise(next) == "crashed"

\* except Exception as e: st.warning(...).  The error of a chart is caught where
\* the chart is built, and the run goes on with the step that follows.
OnChartError(next) == next

\* Lines 160-175: the axes are chosen, then the histogram is built; plotly may
\* raise on the chosen column.  The y-axis is left at None or set to a column
\* (the first stands for any: the run reads only whether one is chosen); the
\* x-axis decides nothing but whether plotly raises.
Histogram ==
    /\ pc = "hist"
    /\ \E y \in {NoName, df.columns[1]} : y_axis' = y
    /\ \E raised \in BOOLEAN :
          IF raised
          THEN /\ charts' = [charts EXCEPT !.hist = "failed"]
               /\ pc' = OnChartError("scatter")
               /\ out' = IF OnChartError("scatter") = "scatter"
                         THEN Append(out, "warning: could not create histogram")
                         ELSE out
               /\ exc' = IF OnChartError("scatter") = "scatter" THEN exc ELSE "PlotError"
          ELSE /\ charts' = [charts EXCEPT !.hist = "shown"]
               /\ pc' = "scatter"
               /\ UNCHANGED <<out, exc>>
    /\ UNCHANGED <<session, df, widgets, metrics, overview, csv>>

\* Lines 177-186.
Scatter ==
    /\ pc = "scatter"
    /\ IF y_axis # NoName
       THEN \E raised \in BOOLEAN :
               IF raised
               THEN /\ charts' = [charts EXCEPT !.scatter = "failed"]
                    /\ pc' = OnChartError("export")
                    /\ out' = IF OnChartError("export") = "export"
                              THEN Append(out, "warning: could not create scatter plot")
                              ELSE out
                    /\ exc' = IF OnChartError("export") = "export" THEN exc ELSE "PlotError"
               ELSE /\ charts' = [charts EXCEPT !.scatter = "shown"]
                    /\ pc' = "export"
                    /\ UNCHANGED <<out, exc>>
       ELSE /\ out' = Append(out, "info: select a y-axis")
            /\ pc' = "export"
            /\ UNCHANGED <<charts, exc>>
    /\ UNCHANGED <<session, df, widgets, metrics, overview, y_axis, csv>>

\* Lines 188-198.
Export ==
    /\ pc = "export"
    /\ csv' = ToCsv(df)
    /\ pc' = "done"
    /\ UNCHANGED <<session, df, widgets, metrics, overview, charts, y_axis, out, exc>>

\* One run of the script on the first upload of a session.
Next ==
    \/ NoUpload
    \/ FirstUpload
    \/ LoadData
    \/ CatFilter
    \/ AgeFilter
    \/ Metrics
    \/ Overview
    \/ Histogram
    \/ Scatter
    \/ Export

Spec == Init /\ [][Next]_vars

\* A session: runs of the script, one after the other, on uploads, removals and
\* widget changes.
NextSession ==
    \/ Next
    \/ Upload
    \/ RemoveUpload
    \/ Interact

SpecSession == InitSession /\ [][NextSession]_vars

(***************************************************************************)
(* Properties.                                                              *)
(***************************************************************************)

\* The steps of a run after the sidebar filters.
AfterFilters == {"metrics", "overview", "hist", "scatter", "export", "done"}

\* The table load_data returned to the run in progress.
Loaded == cache[CacheKey(uploaded)].result

\* int(df['age'].min()) raised.
Raised == [raised |-> "ValueError"]

\* Lines 108-122 as one function of the DataFrame they start from and of the
\* values the widgets return: the DataFrame they end with, or Raised.
ApplyFilters(t, col, vals, rng) ==
    LET t1 == IF CategoricalCols(t) # << >> THEN BoolIndex(t, Isin(t, col, vals)) ELSE t
    IN  IF "age" \in Range(NumericalCols(t1))
        THEN IF ColMin(t1, "age") = NaN THEN Raised
             ELSE BoolIndex(t1, Between(t1, "age", rng[1], rng[2]))
        ELSE t1

\* Whether a row passes the two constraints of a selection.
Passes(r, col, vals, rng) ==
    /\ r.cells[col] \in vals
    /\ r.cells["age"] # NaN
    /\ rng[1] * 10 <= r.cells["age"]
    /\ r.cells["age"] <= rng[2] * 10

\* The rows of the DataFrame are in the order of their index labels.
InOriginalOrder(t) ==
    \A i, k \in 1..Len(t.rows) : i < k => t.rows[i].idx < t.rows[k].idx

\* C1: when both filters are applied, the filtered table holds exactly the rows of
\* the loaded table whose categorical value is among the allowed values and whose
\* age lies in the range, ends included, in their original relative order.
C1_FilteredExactly ==
    (pc \in AfterFilters /\ selected_cat_col # NoName /\ age_range # NoRange) =>
        /\ df.columns = Loaded.columns
        /\ \A k \in 1..Len(df.rows) : \E i \in 1..Len(Loaded.rows) : df.rows[k] = Loaded.rows[i]
        /\ \A i \in 1..Len(Loaded.rows) :
              Passes(Loaded.rows[i], selected_cat_col, selected_val, age_range)
                  <=> \E k \in 1..Len(df.rows) : df.rows[k] = Loaded.rows[i]
        /\ InOriginalOrder(df)

\* The table of the claim's example: ages 25, 40, 60 with jobs admin, admin,
\* blue-collar.
ExampleFile ==
    <<<<"age", "job">>, <<"25", "admin">>, <<"40", "admin">>, <<"60", "blue-collar">>>>

\* C1 witness: on the example table with admin allowed and the range from 30 (to
\* 40, the slider's upper end once blue-collar is filtered out), both filters
\* have dropped a row and the row of age 40 alone is left.
C1_Witness ==
    /\ pc = "done"
    /\ files[uploaded] = ExampleFile
    /\ selected_cat_col = "job"
    /\ selected_val = {"admin"}
    /\ age_range = <<30, 40>>
    /\ Len(df.rows) = 1
    /\ df.rows[1].idx = 1
    /\ df.rows[1].cells["age"] = 400

\* The widgets are at their defaults: every distinct value selected, the slider
\* at its two ends.
DefaultSelection ==
    /\ selected_cat_col # NoName => selected_val = Unique(Loaded, selected_cat_col)
    /\ age_range # NoRange =>
          age_range = <<IntOf(ColMin(Loaded, "age")), IntOf(ColMax(Loaded, "age"))>>

\* C2: with no constraint active the filtered table is the loaded table, rows
\* with a missing or non-integer age included.
C2_NoConstraintIdentity ==
    (pc \in AfterFilters /\ DefaultSelection) => df = Loaded

\* C3: with an empty set of allowed values the run raises no error.
C3_EmptySelectionNoError ==
    (selected_cat_col # NoName /\ selected_val = {}) => (pc # "crashed" /\ exc = NoName)

\* C4: the metrics of a zero-row filtered table are a record count of 0 and an
\* average age of 'N/A'.
C4_EmptySummary ==
    (metrics # None /\ Len(df.rows) = 0) =>
        (metrics.records = "0" /\ metrics.average = "N/A")

\* C5: applying the selection of the run to the table the run filtered gives that
\* table again.
C5_Idempotent ==
    pc \in AfterFilters =>
        ApplyFilters(df, selected_cat_col, selected_val, age_range) = df

\* C6: a file of a header alone is loaded as a zero-row table of the header's
\* columns; the run halts on the warning with no filter, metric, chart or export;
\* and a file that cannot be parsed shows an error the header-only file does not.
C6_HeaderOnlyHalts ==
    /\ (uploaded # NoFile /\ pc # "start" /\ Len(files[uploaded]) = 1) =>
          /\ pc = "halted"
          /\ Loaded # None
          /\ Loaded.columns = files[uploaded][1]
          /\ Loaded.rows = << >>
          /\ df = Loaded
          /\ out = <<"warning: empty or could not be read">>
          /\ selected_cat_col = NoName
          /\ age_range = NoRange
          /\ metrics = None
          /\ overview = None
          /\ charts = NoCharts
          /\ csv = NoCsv
    /\ (uploaded # NoFile /\ pc # "start" /\ ReadCsvRaises(files[uploaded])) =>
          /\ pc = "halted"
          /\ Loaded = None
          /\ out = <<"error: reading the file", "warning: empty or could not be read">>

\* C6 witness: the run on a header-only file has halted on the warning.
C6_Witness ==
    /\ pc = "halted"
    /\ uploaded # NoFile
    /\ files[uploaded] = <<<<"age", "job">>>>
    /\ out = <<"warning: empty or could not be read">>

\* C7: the exported CSV is the header line of the column names and then one line
\* per row of the filtered table, in its order, each line reading back as the
\* row's cells; it has as many data lines as the record count of the metrics.
C7_ExportEncodesFiltered ==
    csv # NoCsv =>
        /\ Len(csv) = 1 + Len(df.rows)
        /\ csv[1] = df.columns
        /\ \A i \in 1..Len(df.rows) :
              /\ Len(csv[i + 1]) = Len(df.columns)
              /\ \A j \in 1..Len(df.columns) :
                    ParseCell(df.dtypes[df.columns[j]], csv[i + 1][j])
                        = df.rows[i].cells[df.columns[j]]
        /\ metrics.records = ToString(Len(csv) - 1)
        /\ InOriginalOrder(df)
        /\ df = ApplyFilters(Loaded, selected_cat_col, selected_val, age_range)

\* C7 witness: the export of two rows out of three, their ages written as floats.
C7_Witness ==
    /\ pc = "done"
    /\ Len(csv) = 3
    /\ Len(Loaded.rows) = 3
    /\ csv[1] = <<"age", "job">>
    /\ csv[2] = <<"25.0", "admin">>
    /\ csv[3] = <<"40.0", "blue-collar">>

\* C8: read_csv runs at most once on a file; a file with an entry has been parsed
\* once and its entry is the result of parsing that file; a run's table is the
\* entry of the file uploaded.
C8_ParsedAtMostOnce ==
    /\ \A f \in DOMAIN files :
          /\ parses[f] <= 1
          /\ parses[f] = 1 <=> CacheKey(f) \in DOMAIN cache
          /\ CacheKey(f) \in DOMAIN cache => cache[CacheKey(f)] = LoadDataBody(files[f])
    /\ (uploaded # NoFile /\ pc \in {"filters", "halted"}) =>
          df = LoadDataBody(files[uploaded]).result

\* C8 witness: both files have been parsed, and a later run on the first was
\* served from its entry.
C8_Witness ==
    /\ uploaded = "f1"
    /\ served = "memoized"
    /\ files["f1"] # files["f2"]
    /\ DOMAIN cache = {"f1", "f2"}
    /\ pc = "done"

\* C9: the entry of every loaded file still holds the table as parsed, and the
\* filtered table is the selection of the run applied to that table.
C9_LoadedPreserved ==
    /\ \A f \in DOMAIN files :
          CacheKey(f) \in DOMAIN cache => cache[CacheKey(f)] = LoadDataBody(files[f])
    /\ pc \in AfterFilters =>
          /\ Loaded # None
          /\ df = ApplyFilters(Loaded, selected_cat_col, selected_val, age_range)

\* C9 witness: a run served from the memoized table shows all three rows of the
\* example table under the default selection.
C9_Witness ==
    /\ pc = "done"
    /\ served = "memoized"
    /\ files[uploaded] = ExampleFile
    /\ Len(df.rows) = 3
    /\ Len(Loaded.rows) = 3

\* C10: a chart that cannot be built is reported by a warning and ends nothing:
\* the run goes on to the scatter plot and the export, and the histogram's
\* outcome stays.
C10_ChartFailureLocal ==
    /\ charts.hist = "failed" =>
          /\ pc \in {"scatter", "export", "done"}
          /\ exc = NoName
          /\ \E i \in 1..Len(out) : out[i] = "warning: could not create histogram"
    /\ charts.scatter = "failed" =>
          /\ pc \in {"export", "done"}
          /\ exc = NoName
          /\ charts.hist \in {"shown", "failed"}
          /\ \E i \in 1..Len(out) : out[i] = "warning: could not create scatter plot"
    /\ pc \in {"export", "done"} =>
          /\ charts.hist \in {"shown", "failed"}
          /\ y_axis # NoName => charts.scatter \in {"shown", "failed"}
    /\ pc = "done" => csv # NoCsv

\* C10 witness: both charts failed and the export was made.
C10_Witness ==
    /\ pc = "done"
    /\ charts.hist = "failed"
    /\ charts.scatter = "failed"
    /\ csv # NoCsv
====
